---------------------------- MODULE Spec2Model ----------------------------
(***************************************************************************)
(* Model of the provenance handler of the TDS data service                 *)
(* (tds/db/graph.py): typed relations between resources, written to a      *)
(* relational store and mirrored into a graph store; and of the asset      *)
(* endpoints of its projects router (tds/routers/projects.py).             *)
(***************************************************************************)
EXTENDS Integers, Sequences, FiniteSets, TLC

(***************************************************************************)
(* Bounds of the model.                                                    *)
(***************************************************************************)
\* the relational store hands out surrogate ids 1..MaxId
MaxId == 2
\* a mirror protocol is started again at most MaxReplays times
MaxReplays == 2

(***************************************************************************)
(* Value domains.                                                          *)
(***************************************************************************)
\* Python's None, as passed for a missing endpoint type
None == "None"

\* resource type tags (two of the tags the routers name)
ResourceType == {"datasets", "models"}

\* the relation types of the schema
RelationType == {"copies", "derives", "glued", "parents"}

\* the relation types the calls of the model pass
RelationInputs == {"copies", "derives"}

\* the resource ids and the user ids the calls of the model pass
ResourceIds == {1}
UserIds == {1}

\* the surrogate ids the calls of the model ask for
RowIds == 1..MaxId

\* the arguments of create(); either type may be None
CreateArgs ==
    [left: ResourceIds, left_type: ResourceType \cup {None},
     right: ResourceIds, right_type: ResourceType \cup {None},
     relation_type: RelationInputs, user_id: UserIds]

\* placeholder payload of a call that carries none
NoArgs ==
    [left |-> 0, left_type |-> None, right |-> 0, right_type |-> None,
     relation_type |-> None, user_id |-> 0]

VARIABLES
    rows,                 \* the provenance table: a set of rows, keyed by id
    nextId,               \* the next surrogate id the table assigns
    nodes,                \* graph store: node instances [label, id, k]
    edges,                \* graph store: edge instances [src, dst, type, user_id, k]
    graph_cache_enabled,  \* the handler's mirroring switch
    ret,                  \* the last call: its arguments and its outcome
    log,                  \* the store operations the last call issued, in order
    mirrored,             \* history: ids whose mirror write completed at creation
    replay,               \* a mirror protocol run on its own: where it stands
    assets,               \* the project_asset table: rows keyed by id
    nextAssetId,          \* the next surrogate id the asset table assigns
    projects,             \* the ids of the project table
    docs,                 \* the resources each owning store holds, per type
    pcs,                  \* the requests in flight, one per worker
    resp                  \* the last response of a router or a search

\* the state of the projects router and of concurrent requests
router == <<assets, nextAssetId, projects, docs, pcs, resp>>

vars == <<rows, nextId, nodes, edges, graph_cache_enabled, ret, log,
          mirrored, replay, router>>

(***************************************************************************)
(* The relational store.                                                   *)
(***************************************************************************)
\* mutant of NewRow: the two endpoints are stored the wrong way round
NewRow_SwapEnds(args, id) ==
    [id |-> id, left |-> args.right, left_type |-> args.right_type,
     right |-> args.left, right_type |-> args.left_type,
     relation_type |-> args.relation_type, user_id |-> args.user_id]

\* orm.Provenance(**provenance_payload) with the id the table assigns
NewRow(args, id) ==
    [id |-> id, left |-> args.left, left_type |-> args.left_type,
     right |-> args.right, right_type |-> args.right_type,
     relation_type |-> args.relation_type, user_id |-> args.user_id]

\* mutant of RowsWithId: the filter compares with <= instead of ==
RowsWithId_UpTo(rs, id) == {r \in rs : r.id <= id}

\* session.query(orm.Provenance).filter(orm.Provenance.id == id)
RowsWithId(rs, id) == {r \in rs : r.id = id}

\* the payload a row carries (its columns without the id)
PayloadOf(r) ==
    [left |-> r.left, left_type |-> r.left_type,
     right |-> r.right, right_type |-> r.right_type,
     relation_type |-> r.relation_type, user_id |-> r.user_id]

(***************************************************************************)
(* The graph store.  A graph is a record [nodes, edges]; node and edge     *)
(* instances carry a copy number k so that duplicates are representable.   *)
(***************************************************************************)
\* the label a type tag is formatted to inside the query text
Label(t) == t

\* Match (n: label) Where n.id = id
MatchNodes(G, label, id) == {n \in G.nodes : n.label = label /\ n.id = id}

\* mutant of MergeNode: Create instead of Merge, a node is always added
MergeNode_AlwaysCreate(G, label, id) ==
    [G EXCEPT !.nodes = @ \cup
        {[label |-> label, id |-> id,
          k |-> Cardinality(MatchNodes(G, label, id)) + 1]}]

\* Merge (n: label { id: id }): create the node only when none matches
MergeNode(G, label, id) ==
    IF MatchNodes(G, label, id) # {}
    THEN G
    ELSE [G EXCEPT !.nodes = @ \cup {[label |-> label, id |-> id, k |-> 1]}]

\* the edges of one type and user_id between two node instances
EdgesBetween(G, n1, n2, type, user_id) ==
    {e \in G.edges : e.src = n1 /\ e.dst = n2 /\ e.type = type
                     /\ e.user_id = user_id}

\* mutant of MergeEdge: the right node is matched under the left label
MergeEdge_LeftLabelTwice(G, p) ==
    LET N1 == MatchNodes(G, Label(p.left_type), p.left)
        N2 == MatchNodes(G, Label(p.left_type), p.right)
        new == {[src |-> pr[1], dst |-> pr[2], type |-> p.relation_type,
                 user_id |-> p.user_id, k |-> 1] :
                   pr \in {qr \in N1 \X N2 :
                       {e \in G.edges : e.src = qr[1] /\ e.dst = qr[2]
                            /\ e.type = p.relation_type
                            /\ e.user_id = p.user_id} = {}}}
    IN  [G EXCEPT !.edges = @ \cup new]

\* Match (n1) Match (n2) Merge (n1)-[:type {user_id}]->(n2):
\* for every matched pair, create the edge only when none exists
MergeEdge(G, p) ==
    LET N1 == MatchNodes(G, Label(p.left_type), p.left)
        N2 == MatchNodes(G, Label(p.right_type), p.right)
        new == {[src |-> pr[1], dst |-> pr[2], type |-> p.relation_type,
                 user_id |-> p.user_id, k |-> 1] :
                   pr \in {qr \in N1 \X N2 :
                       EdgesBetween(G, qr[1], qr[2], p.relation_type,
                                    p.user_id) = {}}}
    IN  [G EXCEPT !.edges = @ \cup new]

\* mutant of DeleteEdges: the matched end nodes are deleted with the edge
DeleteEdges_WithNodes(G, p) ==
    LET N1 == MatchNodes(G, Label(p.left_type), p.left)
        N2 == MatchNodes(G, Label(p.right_type), p.right)
    IN  [nodes |-> G.nodes \ (N1 \cup N2),
         edges |-> {e \in G.edges : e.src \notin N1 \cup N2
                                    /\ e.dst \notin N1 \cup N2}]

\* mutant of DeleteEdges: the edge is matched in the reverse direction
DeleteEdges_Reversed(G, p) ==
    LET N1 == MatchNodes(G, Label(p.left_type), p.left)
        N2 == MatchNodes(G, Label(p.right_type), p.right)
    IN  [G EXCEPT !.edges =
            {e \in @ : ~(e.src \in N2 /\ e.dst \in N1
                         /\ e.type = p.relation_type
                         /\ e.user_id = p.user_id)}]

\* Match (n1) Match (n2) Match (n1)-[r:type {user_id}]->(n2) Delete r
DeleteEdges(G, p) ==
    LET N1 == MatchNodes(G, Label(p.left_type), p.left)
        N2 == MatchNodes(G, Label(p.right_type), p.right)
    IN  [G EXCEPT !.edges =
            {e \in @ : ~(e.src \in N1 /\ e.dst \in N2
                         /\ e.type = p.relation_type
                         /\ e.user_id = p.user_id)}]

\* the i-th statement of create_node_relationship
MirrorStep(G, p, i) ==
    CASE i = 1 -> MergeNode(G, Label(p.left_type), p.left)
      [] i = 2 -> MergeNode(G, Label(p.right_type), p.right)
      [] i = 3 -> MergeEdge(G, p)

\* the number of statements of create_node_relationship
MirrorSteps == 3

\* create_node_relationship, of which the first n statements succeed
RECURSIVE create_node_relationship(_, _, _)
create_node_relationship(G, p, n) ==
    IF n = 0 THEN G
    ELSE MirrorStep(create_node_relationship(G, p, n - 1), p, n)

\* delete_node_relationship, of which the first n (0 or 1) statements succeed
delete_node_relationship(G, p, n) ==
    IF n = 0 THEN G ELSE DeleteEdges(G, p)

\* the graph store as one value
Graph == [nodes |-> nodes, edges |-> edges]

\* how many statements of a session of `total` succeed before the graph store
\* stops answering: any number, all of them when it answers throughout
OkSteps(total) == 0..total

\* what a graph session of `total` statements, the first n of which succeed,
\* leaves in the log: the statements issued, and the error that ends it early
GraphLog(n, total) ==
    <<"graph.session">>
    \o [i \in 1..(IF n < total THEN n + 1 ELSE n) |-> "graph.run"]
    \o (IF n < total THEN <<"graph.error">> ELSE <<>>)

\* mutant of CreateLog: the mirror session runs before the commit
CreateLog_MirrorFirst(mirror) == <<"rdb.add">> \o mirror \o <<"rdb.commit">>

\* the store operations of create(): the insert and its commit, then the
\* mirror session when there is one
CreateLog(mirror) == <<"rdb.add", "rdb.commit">> \o mirror

\* the store operations of delete() on a row that exists: the lookup, the
\* delete and its commit, then the mirror session when there is one
DeleteLog(mirror) ==
    <<"rdb.count", "rdb.get", "rdb.delete", "rdb.commit">> \o mirror

\* mutant of ValidRelation: only the left type is looked at
ValidRelation_LeftOnly(args) == args.left_type # None

\* both endpoint types are given
ValidRelation(args) == args.left_type # None /\ args.right_type # None

\* the outcome record of a call
Outcome(op, arg_id, args, outcome, error, id, ok, rec) ==
    [op |-> op, arg_id |-> arg_id, args |-> args, outcome |-> outcome,
     error |-> error, id |-> id, ok |-> ok, rec |-> rec]

\* the error create() raises for a missing endpoint type
InvalidRelation == "Invalid object in relation"

\* the error a graph statement raises when the graph store does not answer
GraphUnavailable == "graph store unavailable"

\* no response yet
NoResp == [op |-> "none"]

\* the projects router has served nothing and no request is in flight
RouterIdle ==
    /\ assets = {}
    /\ nextAssetId = 1
    /\ projects = {}
    /\ docs = {}
    /\ pcs = <<>>
    /\ resp = NoResp

\* no mirror protocol is run on its own
NoReplay ==
    [G0 |-> [nodes |-> {}, edges |-> {}], pos |-> 0, done |-> 0,
     partial |-> FALSE]

(***************************************************************************)
(* Init: empty stores; the handler is constructed with mirroring on or off.*)
(***************************************************************************)
Init ==
    /\ rows = {}
    /\ nextId = 1
    /\ nodes = {}
    /\ edges = {}
    /\ graph_cache_enabled \in BOOLEAN
    /\ ret = Outcome("init", 0, NoArgs, "returned", None, 0, FALSE, {})
    /\ log = <<>>
    /\ mirrored = {}
    /\ replay = NoReplay
    /\ RouterIdle

(***************************************************************************)
(* The handler's operations.  Each action is one whole call.               *)
(***************************************************************************)
\* ProvenanceHandler.create
create(args) ==
    IF ValidRelation(args)
    THEN /\ nextId <= MaxId
         /\ rows' = rows \cup {NewRow(args, nextId)}
         /\ nextId' = nextId + 1
         /\ IF graph_cache_enabled
            THEN \E n \in OkSteps(MirrorSteps) :
                   LET G == create_node_relationship(Graph, args, n)
                   IN  /\ nodes' = G.nodes
                       /\ edges' = G.edges
                       /\ log' = CreateLog(GraphLog(n, MirrorSteps))
                       /\ mirrored' = IF n = MirrorSteps
                                      THEN mirrored \cup {nextId}
                                      ELSE mirrored
                       /\ ret' = IF n = MirrorSteps
                                 THEN Outcome("create", 0, args, "returned",
                                              None, nextId, FALSE, {})
                                 ELSE Outcome("create", 0, args, "raised",
                                              GraphUnavailable, 0, FALSE, {})
            ELSE /\ UNCHANGED <<nodes, edges, mirrored>>
                 /\ log' = CreateLog(<<>>)
                 /\ ret' = Outcome("create", 0, args, "returned", None,
                                   nextId, FALSE, {})
         /\ UNCHANGED <<graph_cache_enabled, replay, router>>
    ELSE /\ ret' = Outcome("create", 0, args, "raised", InvalidRelation,
                           0, FALSE, {})
         /\ log' = <<>>
         /\ UNCHANGED <<rows, nextId, nodes, edges, graph_cache_enabled,
                        mirrored, replay, router>>

\* ProvenanceHandler.retrieve
retrieve(id) ==
    /\ IF Cardinality(RowsWithId(rows, id)) = 1
       THEN /\ ret' = Outcome("retrieve", id, NoArgs, "returned", None, 0,
                              FALSE, RowsWithId(rows, id))
            /\ log' = <<"rdb.count", "rdb.get">>
       ELSE /\ ret' = Outcome("retrieve", id, NoArgs, "returned", None, 0,
                              FALSE, {})
            /\ log' = <<"rdb.count">>
    /\ UNCHANGED <<rows, nextId, nodes, edges, graph_cache_enabled,
                   mirrored, replay, router>>

\* ProvenanceHandler.delete
delete(id) ==
    /\ IF Cardinality(RowsWithId(rows, id)) = 1
       THEN LET provenance == CHOOSE r \in rows : r.id = id
                provenance_dict == PayloadOf(provenance)
            IN  /\ rows' = rows \ {provenance}
                /\ IF graph_cache_enabled
                   THEN \E n \in OkSteps(1) :
                          LET G == delete_node_relationship(Graph,
                                                            provenance_dict, n)
                          IN  /\ nodes' = G.nodes
                              /\ edges' = G.edges
                              /\ log' = DeleteLog(GraphLog(n, 1))
                              /\ ret' = IF n = 1
                                        THEN Outcome("delete", id,
                                                 provenance_dict, "returned",
                                                 None, 0, TRUE, {})
                                        ELSE Outcome("delete", id,
                                                 provenance_dict, "raised",
                                                 GraphUnavailable, 0, FALSE,
                                                 {})
                   ELSE /\ UNCHANGED <<nodes, edges>>
                        /\ log' = DeleteLog(<<>>)
                        /\ ret' = Outcome("delete", id, provenance_dict,
                                          "returned", None, 0, TRUE, {})
       ELSE /\ ret' = Outcome("delete", id, NoArgs, "returned", None, 0,
                              FALSE, {})
            /\ log' = <<"rdb.count">>
            /\ UNCHANGED <<rows, nodes, edges>>
    /\ UNCHANGED <<nextId, graph_cache_enabled, mirrored, replay, router>>

Next ==
    \/ \E args \in CreateArgs : create(args)
    \/ \E id \in RowIds : retrieve(id)
    \/ \E id \in RowIds : delete(id)

Spec == Init /\ [][Next]_vars

(***************************************************************************)
(* The mirror protocol on its own: create_node_relationship is run on a    *)
(* graph and a payload, one statement at a time; a session may fail after  *)
(* any proper prefix of its statements, and the protocol is run again.     *)
(***************************************************************************)
\* the node instances a graph without duplicates can hold
AllNodes ==
    {[label |-> Label(t), id |-> i, k |-> 1] :
        t \in ResourceType, i \in ResourceIds}

\* the edge instances a graph without duplicates can hold among the nodes ns
EdgesAmong(ns) ==
    {[src |-> n1, dst |-> n2, type |-> t, user_id |-> u, k |-> 1] :
        n1 \in ns, n2 \in ns, t \in RelationInputs, u \in UserIds}

\* any graph and any payload create() accepts
MirrorInit ==
    /\ rows = {}
    /\ nextId = 1
    /\ nodes \in SUBSET AllNodes
    /\ edges \in SUBSET EdgesAmong(nodes)
    /\ graph_cache_enabled = TRUE
    /\ \E p \in {a \in CreateArgs : ValidRelation(a)} :
          ret = Outcome("mirror", 0, p, "returned", None, 0, FALSE, {})
    /\ log = <<"graph.session">>
    /\ mirrored = {}
    /\ replay = [NoReplay EXCEPT !.G0 = Graph]
    /\ RouterIdle

\* the next statement of the session runs
MirrorStatement ==
    /\ replay.pos < MirrorSteps
    /\ LET G == MirrorStep(Graph, ret.args, replay.pos + 1)
       IN  /\ nodes' = G.nodes
           /\ edges' = G.edges
    /\ replay' = [replay EXCEPT !.pos = @ + 1]
    /\ log' = Append(log, "graph.run")
    /\ UNCHANGED <<rows, nextId, graph_cache_enabled, ret, mirrored, router>>

\* the graph store fails before the session is through, and the protocol
\* is started again
MirrorFailAndRetry ==
    /\ replay.pos < MirrorSteps
    /\ replay.done < MaxReplays
    /\ replay' = [replay EXCEPT !.pos = 0, !.done = @ + 1,
                                !.partial = @ \/ replay.pos > 0]
    /\ log' = <<"graph.session">>
    /\ UNCHANGED <<rows, nextId, nodes, edges, graph_cache_enabled, ret,
                   mirrored, router>>

\* the session is through, and the protocol is started again
MirrorAgain ==
    /\ replay.pos = MirrorSteps
    /\ replay.done < MaxReplays
    /\ replay' = [replay EXCEPT !.pos = 0, !.done = @ + 1]
    /\ log' = <<"graph.session">>
    /\ UNCHANGED <<rows, nextId, nodes, edges, graph_cache_enabled, ret,
                   mirrored, router>>

MirrorNext ==
    \/ MirrorStatement
    \/ MirrorFailAndRetry
    \/ MirrorAgain

MirrorSpec == MirrorInit /\ [][MirrorNext]_vars

(***************************************************************************)
(* The handler with mirroring enabled and a graph store that answers every *)
(* statement: the calls of Spec, without those a graph error ends.         *)
(***************************************************************************)
\* the handler is constructed with mirroring on
ReliableInit == Init /\ graph_cache_enabled

\* no graph statement of the last call failed
GraphAnswered == \A i \in DOMAIN log : log[i] # "graph.error"

\* the calls during which no graph statement fails
ReliableNext ==
    \/ \E args \in CreateArgs : create(args) /\ GraphAnswered'
    \/ \E id \in RowIds : retrieve(id) /\ GraphAnswered'
    \/ \E id \in RowIds : delete(id) /\ GraphAnswered'

ReliableSpec == ReliableInit /\ [][ReliableNext]_vars

(***************************************************************************)
(* The asset endpoints of the projects router, served by concurrent        *)
(* workers.  Every request opens a session of its own; between its query   *)
(* and its commit the requests of the other workers may run.               *)
(***************************************************************************)
MaxAssetId == 3

Workers == {"w1", "w2"}

\* the references a request may name: (project_id, resource_type,
\* resource_id), the resource id as the string str() makes of it
AssetProjects == {1}
AssetTypes == {"datasets", "publications"}
AssetResourceIds == {"1"}
AssetKeys ==
    [project_id : AssetProjects, resource_type : AssetTypes,
     resource_id : AssetResourceIds]

HTTP_200_OK == 200
HTTP_201_CREATED == 201
HTTP_204_NO_CONTENT == 204
HTTP_404_NOT_FOUND == 404
HTTP_409_CONFLICT == 409
HTTP_500_INTERNAL_SERVER_ERROR == 500

\* Response(content, status_code): the first positional parameter is the
\* body, the status code is the second
Response(content, status_code) ==
    [status |-> status_code, content |-> content]

\* the reference of an asset row
KeyOf(a) ==
    [project_id |-> a.project_id, resource_type |-> a.resource_type,
     resource_id |-> a.resource_id]

\* the rows the filter on the three columns selects
MatchingAssets(table, key) == {a \in table : KeyOf(a) = key}

\* no request in flight
Idle == [op |-> "idle"]

\* the worker w has a request in flight
Busy(w) == pcs[w].op # "idle"

AssetInit ==
    /\ rows = {}
    /\ nextId = 1
    /\ nodes = {}
    /\ edges = {}
    /\ graph_cache_enabled = FALSE
    /\ ret = Outcome("none", None, NoArgs, "none", None, None, FALSE, NoArgs)
    /\ log = <<>>
    /\ mirrored = {}
    /\ replay = NoReplay
    /\ assets = {}
    /\ nextAssetId = 1
    /\ projects = AssetProjects
    /\ docs = {}
    /\ pcs = [w \in Workers |-> Idle]
    /\ resp = NoResp

\* what follows a reference that is already stored: the response is built
\* from the conflict code as its body, with the default status, and sending
\* a body that is not text fails in the server
ConflictResponses ==
    {Response("409", HTTP_200_OK), Response("", HTTP_500_INTERNAL_SERVER_ERROR)}

\* create_asset, first step: count the rows of the reference
create_asset_count(w, key) ==
    /\ ~Busy(w)
    /\ nextAssetId + Cardinality({v \in Workers : pcs[v].op = "create_asset"})
           <= MaxAssetId
    /\ pcs' = [pcs EXCEPT ![w] =
                 [op |-> "create_asset", key |-> key,
                  identical_count |->
                      Cardinality(MatchingAssets(assets, key))]]
    /\ UNCHANGED <<rows, nextId, nodes, edges, graph_cache_enabled, ret, log,
                   mirrored, replay, assets, nextAssetId, projects, docs,
                   resp>>

\* create_asset, second step: insert and commit when the count was zero,
\* answer with the conflict otherwise
create_asset_respond(w) ==
    /\ pcs[w].op = "create_asset"
    /\ IF pcs[w].identical_count = 0
       THEN /\ assets' = assets \cup
                   {[id |-> nextAssetId,
                     project_id |-> pcs[w].key.project_id,
                     resource_id |-> pcs[w].key.resource_id,
                     resource_type |-> pcs[w].key.resource_type]}
            /\ nextAssetId' = nextAssetId + 1
            /\ resp' = [op |-> "create_asset", key |-> pcs[w].key,
                        found |-> pcs[w].identical_count,
                        response |-> Response("id", HTTP_201_CREATED)]
       ELSE /\ \E r \in ConflictResponses :
                  resp' = [op |-> "create_asset", key |-> pcs[w].key,
                           found |-> pcs[w].identical_count, response |-> r]
            /\ UNCHANGED <<assets, nextAssetId>>
    /\ pcs' = [pcs EXCEPT ![w] = Idle]
    /\ UNCHANGED <<rows, nextId, nodes, edges, graph_cache_enabled, ret, log,
                   mirrored, replay, projects, docs>>

\* delete_asset, first step: list the rows of the reference; the store
\* returns them in an order of its choice, first is project_assets[0]
delete_asset_query(w, key) ==
    /\ ~Busy(w)
    /\ LET project_assets == MatchingAssets(assets, key)
       IN  IF project_assets = {}
           THEN pcs' = [pcs EXCEPT ![w] =
                          [op |-> "delete_asset", key |-> key,
                           len |-> 0, first |-> None]]
           ELSE \E a \in project_assets :
                   pcs' = [pcs EXCEPT ![w] =
                             [op |-> "delete_asset", key |-> key,
                              len |-> Cardinality(project_assets),
                              first |-> a.id]]
    /\ UNCHANGED <<rows, nextId, nodes, edges, graph_cache_enabled, ret, log,
                   mirrored, replay, assets, nextAssetId, projects, docs,
                   resp>>

\* delete_asset, second step: 404 when the list was empty, otherwise
\* delete its first row and commit
delete_asset_respond(w) ==
    /\ pcs[w].op = "delete_asset"
    /\ IF pcs[w].len = 0
       THEN /\ resp' = [op |-> "delete_asset", key |-> pcs[w].key,
                        found |-> 0,
                        response |-> Response("", HTTP_404_NOT_FOUND)]
            /\ UNCHANGED assets
       ELSE /\ assets' = {a \in assets : a.id # pcs[w].first}
            /\ resp' = [op |-> "delete_asset", key |-> pcs[w].key,
                        found |-> pcs[w].len,
                        response |-> Response("", HTTP_204_NO_CONTENT)]
    /\ pcs' = [pcs EXCEPT ![w] = Idle]
    /\ UNCHANGED <<rows, nextId, nodes, edges, graph_cache_enabled, ret, log,
                   mirrored, replay, nextAssetId, projects, docs>>

AssetNext ==
    \/ \E w \in Workers, key \in AssetKeys : create_asset_count(w, key)
    \/ \E w \in Workers : create_asset_respond(w)
    \/ \E w \in Workers, key \in AssetKeys : delete_asset_query(w, key)
    \/ \E w \in Workers : delete_asset_respond(w)

AssetSpec == AssetInit /\ [][AssetNext]_vars

(***************************************************************************)
(* get_project_assets: the assets of a project, resolved type by type      *)
(* against the store that owns the type.  The tables are drawn at the      *)
(* start and the requests read them.                                       *)
(***************************************************************************)
\* the asset table holds at most MaxAssets rows
MaxAssets == 2
\* the types parameter lists at most MaxTypes tags
MaxTypes == 2

\* the tags with a response shaper, and the shaper of each
es_list_response ==
    [t \in {"models", "model_configurations", "datasets", "simulations",
            "workflows", "artifacts"} |->
        CASE t = "models" -> "model_list_response"
          [] t = "model_configurations" -> "configuration_response"
          [] t = "datasets" -> "dataset_response"
          [] t = "simulations" -> "simulation_response"
          [] t = "workflows" -> "workflow_response"
          [] t = "artifacts" -> "artifact_response"]

\* mutant of es_resources: datasets is missing from the list
es_resources_NoDatasets ==
    {"models", "model_configurations", "simulations", "workflows",
     "artifacts"}

\* the tags resolved through the search index
es_resources ==
    {"datasets", "models", "model_configurations", "simulations",
     "workflows", "artifacts"}

\* the project ids and the resource ids of the drawn tables
ProjectIds == {1, 2}
DocIds == {"1", "2"}

\* the references the drawn asset table may hold
ReferenceKeys ==
    [project_id : ProjectIds, resource_type : AssetTypes,
     resource_id : DocIds]

\* the lists the types parameter may carry
TypeLists == UNION {[1..n -> AssetTypes] : n \in 0..MaxTypes}

\* the elements of a sequence
Range(s) == {s[i] : i \in DOMAIN s}

\* a table of the references K, with the ids n, n+1, ... assigned in turn
RECURSIVE AssetRows(_, _)
AssetRows(K, n) ==
    IF K = {} THEN {}
    ELSE LET key == CHOOSE k \in K : TRUE
         IN  {[id |-> n, project_id |-> key.project_id,
               resource_id |-> key.resource_id,
               resource_type |-> key.resource_type]}
             \cup AssetRows(K \ {key}, n + 1)

\* a set as a list, in an order of the store's choice
RECURSIVE ListOf(_)
ListOf(S) ==
    IF S = {} THEN <<>>
    ELSE LET x == CHOOSE y \in S : TRUE
         IN  <<x>> \o ListOf(S \ {x})

\* the rows of a table as a list, by ascending id
RECURSIVE RowList(_)
RowList(S) ==
    IF S = {} THEN <<>>
    ELSE LET a == CHOOSE b \in S : \A c \in S : b.id <= c.id
         IN  <<a>> \o RowList(S \ {a})

ResolveInit ==
    /\ rows = {}
    /\ nextId = 1
    /\ nodes = {}
    /\ edges = {}
    /\ graph_cache_enabled = FALSE
    /\ ret = Outcome("none", None, NoArgs, "none", None, None, FALSE, NoArgs)
    /\ log = <<>>
    /\ mirrored = {}
    /\ replay = NoReplay
    /\ \E K \in SUBSET ReferenceKeys :
          /\ Cardinality(K) <= MaxAssets
          /\ assets = AssetRows(K, 1)
          /\ nextAssetId = Cardinality(K) + 1
    /\ projects \in {{1}, {1, 2}}
    /\ docs \in [AssetTypes -> {{"1"}, {"1", "2"}}]
    /\ pcs = <<>>
    /\ resp = NoResp

\* entry_exists(connection, orm.Project, id)
entry_exists(table, id) == id \in table

\* the keys of {type: [] for type in types}: each tag once, in the order of
\* its first occurrence
RECURSIVE DictKeys(_)
DictKeys(types) ==
    IF types = <<>> THEN <<>>
    ELSE LET front == DictKeys(SubSeq(types, 1, Len(types) - 1))
             last == types[Len(types)]
         IN  IF last \in Range(front) THEN front ELSE Append(front, last)

\* assets_key_ids[type]: the resource ids of the project's rows of the type
assets_key_ids(id, type) ==
    LET list == RowList({a \in assets : a.project_id = id
                                        /\ a.resource_type = type})
    IN  [i \in DOMAIN list |-> list[i].resource_id]

\* responder["function"](hits): one representation per hit, here its id
responder(key, hits) == [i \in DOMAIN hits |-> hits[i]]

\* the objects of one key: the hits of the ids query shaped by the key's
\* responder ([] when there is no hit), or the rows whose id is IN the list
ResolveKey(key, ids) ==
    LET found == ListOf({d \in docs[key] : d \in Range(ids)})
    IN  IF key \in es_resources
        THEN IF Len(found) = 0 THEN <<>> ELSE responder(key, found)
        ELSE found

\* the lookup a key is resolved by
Lookup(key) ==
    IF key \in es_resources THEN <<"es.search", key>>
                            ELSE <<"rdb.query", key>>

\* mutant of ResolveFrom: a lookup that fails leaves an empty list for its
\* key and the loop goes on
RECURSIVE ResolveFrom_SkipFailed(_, _, _, _, _)
ResolveFrom_SkipFailed(id, keys, i, failing, acc) ==
    IF i > Len(keys) THEN acc
    ELSE LET key == keys[i]
         IN  ResolveFrom_SkipFailed(id, keys, i + 1, failing,
                 [raised |-> FALSE,
                  objects |-> acc.objects @@
                      (key :> IF key = failing THEN <<>>
                              ELSE ResolveKey(key, assets_key_ids(id, key))),
                  log |-> Append(acc.log, Lookup(key))])

\* the loop over the keys from the i-th on: every key is resolved by its
\* lookup, and a lookup that raises ends the request
RECURSIVE ResolveFrom(_, _, _, _, _)
ResolveFrom(id, keys, i, failing, acc) ==
    IF i > Len(keys) THEN acc
    ELSE LET key == keys[i]
         IN  IF key = failing
             THEN [raised |-> TRUE, objects |-> acc.objects,
                   log |-> Append(acc.log, Lookup(key))]
             ELSE ResolveFrom(id, keys, i + 1, failing,
                      [raised |-> FALSE,
                       objects |-> acc.objects @@
                           (key :> ResolveKey(key, assets_key_ids(id, key))),
                       log |-> Append(acc.log, Lookup(key))])

\* mutant of HandleMissing: the project is not looked up first, the assets
\* are queried and an empty mapping is returned
HandleMissing_QueryAnyway(id) ==
    [response |-> Response(<<>>, HTTP_200_OK),
     log |-> <<<<"rdb.query", "project_asset">>>>]

\* the project does not exist: 404, after the existence check alone
HandleMissing(id) ==
    [response |-> Response(<<>>, HTTP_404_NOT_FOUND),
     log |-> <<<<"rdb.entry_exists", "project">>>>]

\* get_project_assets(id, types); the lookup of the type `failing` raises
get_project_assets(id, types, failing) ==
    /\ LET out ==
             IF entry_exists(projects, id)
             THEN LET r == ResolveFrom(id, DictKeys(types), 1, failing,
                               [raised |-> FALSE, objects |-> <<>>,
                                log |-> <<<<"rdb.entry_exists", "project">>,
                                          <<"rdb.query", "project_asset">>>>])
                  IN  IF r.raised
                      THEN [response |->
                                Response(<<>>, HTTP_500_INTERNAL_SERVER_ERROR),
                            log |-> r.log]
                      ELSE [response |-> Response(r.objects, HTTP_200_OK),
                            log |-> r.log]
             ELSE HandleMissing(id)
       IN  /\ resp' = [op |-> "get_project_assets", id |-> id,
                       types |-> types, failing |-> failing,
                       response |-> out.response]
           /\ log' = out.log
    /\ UNCHANGED <<rows, nextId, nodes, edges, graph_cache_enabled, ret,
                   mirrored, replay, assets, nextAssetId, projects, docs, pcs>>

\* a request, during which every lookup answers or that of one of the
\* requested tags fails
ResolveNext ==
    \E id \in ProjectIds, types \in TypeLists :
        \E failing \in Range(types) \cup {None} :
            get_project_assets(id, types, failing)

ResolveSpec == ResolveInit /\ [][ResolveNext]_vars

(***************************************************************************)
(* search_derivedfrom: the graph store is drawn at the start, with edges   *)
(* of the derivation label and of another label, and the searches read it. *)
(***************************************************************************)
\* the drawn graph holds at most MaxSearchEdges edges
MaxSearchEdges == 3

\* the node instances of the drawn graph
SearchNodes ==
    {[label |-> "datasets", id |-> 1, k |-> 1],
     [label |-> "models", id |-> 1, k |-> 1],
     [label |-> "datasets", id |-> 2, k |-> 1]}

\* mutant of DerivedFrom: the search follows a relation type of the schema
DerivedFrom_Derives == "derives"

\* the relation label the search follows, and the labels of the drawn edges
DerivedFrom == "derivedfrom"
SearchLabels == {DerivedFrom, "derives"}

\* the edges the drawn graph may hold
SearchEdges ==
    {[src |-> n1, dst |-> n2, type |-> t, user_id |-> 1, k |-> 1] :
        n1 \in SearchNodes, n2 \in SearchNodes, t \in SearchLabels}

\* the ids a search may name
SearchIds == {1, 2}

SearchInit ==
    /\ rows = {}
    /\ nextId = 1
    /\ nodes = SearchNodes
    /\ \E E \in SUBSET SearchEdges :
          /\ Cardinality(E) <= MaxSearchEdges
          /\ edges = E
    /\ graph_cache_enabled \in BOOLEAN
    /\ ret = Outcome("none", None, NoArgs, "none", None, None, FALSE, NoArgs)
    /\ log = <<>>
    /\ mirrored = {}
    /\ replay = NoReplay
    /\ RouterIdle

\* mutant of PatternEdges: the pattern follows the edges of every label
PatternEdges_AnyLabel(G) == G.edges

\* -[:derivedfrom ...]->: the edges the pattern may follow
PatternEdges(G) == {e \in G.edges : e.type = DerivedFrom}

\* *1..: the paths of one or more edges of E that leave the node n and use
\* no edge of `used` and no edge twice
RECURSIVE PathsFrom(_, _, _)
PathsFrom(E, n, used) ==
    UNION {{<<e>>} \cup {<<e>> \o p : p \in PathsFrom(E, e.dst, used \cup {e})} :
              e \in {f \in E : f.src = n /\ f \notin used}}

\* the rows of the query: one for every path that leaves a node matching
\* (n1: artifact_type) Where n1.id = artifact_id, shaped as (label, id) of
\* the node n2 the path ends in
SearchRows(G, artifact_id, artifact_type) ==
    LET paths == ListOf(UNION {PathsFrom(PatternEdges(G), n1, {}) :
                          n1 \in MatchNodes(G, Label(artifact_type), artifact_id)})
    IN  [i \in DOMAIN paths |->
            [label |-> paths[i][Len(paths[i])].dst.label,
             id |-> paths[i][Len(paths[i])].dst.id]]

\* search_derivedfrom(artifact_id, artifact_type): one session, one query;
\* it returns the rows, or the graph store fails and the error is raised
search_derivedfrom(artifact_id, artifact_type) ==
    /\ \E n \in OkSteps(1) :
          /\ log' = GraphLog(n, 1)
          /\ resp' = [op |-> "search_derivedfrom",
                      artifact_id |-> artifact_id,
                      artifact_type |-> artifact_type,
                      outcome |-> IF n = 1 THEN "returned" ELSE "raised",
                      result |-> IF n = 1
                                 THEN SearchRows(Graph, artifact_id,
                                                 artifact_type)
                                 ELSE <<>>]
    /\ UNCHANGED <<rows, nextId, nodes, edges, graph_cache_enabled, ret,
                   mirrored, replay, assets, nextAssetId, projects, docs, pcs>>

SearchNext ==
    \E artifact_id \in SearchIds, artifact_type \in ResourceType :
        search_derivedfrom(artifact_id, artifact_type)

SearchSpec == SearchInit /\ [][SearchNext]_vars

(***************************************************************************)
(* The handler used to populate the graph and to search it: the graph      *)
(* holds what the creates mirrored, statement by statement, and nothing    *)
(* else.                                                                   *)
(***************************************************************************)
\* the payloads of the creates: every relation type of the schema, between
\* endpoints of either resource type
PopulateArgs ==
    [left: ResourceIds, left_type: ResourceType,
     right: ResourceIds, right_type: ResourceType,
     relation_type: RelationType, user_id: UserIds]

PopulateNext ==
    \/ \E args \in PopulateArgs : create(args)
    \/ \E artifact_id \in ResourceIds, artifact_type \in ResourceType :
          search_derivedfrom(artifact_id, artifact_type)

PopulateSpec == Init /\ [][PopulateNext]_vars

(***************************************************************************)
(* ProvenanceHandler.delete called by concurrent requests.  Every request  *)
(* has a handler and a connection of its own; a statement sees what was    *)
(* committed before it, and the graph store answers every statement.       *)
(***************************************************************************)
\* one relation was created, and mirrored when mirroring is on
RaceInit ==
    /\ \E args \in CreateArgs :
          /\ ValidRelation(args)
          /\ rows = {NewRow(args, 1)}
          /\ graph_cache_enabled \in BOOLEAN
          /\ LET G == create_node_relationship([nodes |-> {}, edges |-> {}],
                                               args, MirrorSteps)
             IN  /\ nodes = (IF graph_cache_enabled THEN G.nodes ELSE {})
                 /\ edges = (IF graph_cache_enabled THEN G.edges ELSE {})
          /\ mirrored = (IF graph_cache_enabled THEN {1} ELSE {})
    /\ nextId = 2
    /\ ret = Outcome("none", None, NoArgs, "none", None, None, FALSE, NoArgs)
    /\ log = <<>>
    /\ replay = NoReplay
    /\ assets = {}
    /\ nextAssetId = 1
    /\ projects = {}
    /\ docs = {}
    /\ pcs = [w \in Workers |-> Idle]
    /\ resp = NoResp

\* the call of worker w stands at the step pc
At(w, pc) == pcs[w].op = "delete" /\ pcs[w].pc = pc

\* the call of worker w is through
Done(w, ok, outcome) ==
    [pcs EXCEPT ![w].pc = "done", ![w].ok = ok, ![w].outcome = outcome]

\* delete, first step: count the rows with the id; return False unless
\* there is exactly one
delete_count(w, id) ==
    /\ ~Busy(w)
    /\ LET call == [op |-> "delete", pc |-> "counted", id |-> id,
                    provenance |-> {}, removed |-> FALSE, ok |-> FALSE,
                    outcome |-> "none"]
       IN  pcs' = IF Cardinality(RowsWithId(rows, id)) = 1
                  THEN [pcs EXCEPT ![w] = call]
                  ELSE [pcs EXCEPT ![w] =
                          [call EXCEPT !.pc = "done", !.outcome = "returned"]]
    /\ UNCHANGED <<rows, nextId, nodes, edges, graph_cache_enabled, ret, log,
                   mirrored, replay, assets, nextAssetId, projects, docs,
                   resp>>

\* delete, second step: get(id) loads the row, or None when it is gone;
\* provenance is kept as the set of the rows loaded, {} for None
delete_get(w) ==
    /\ At(w, "counted")
    /\ pcs' = [pcs EXCEPT ![w].pc = "fetched",
                          ![w].provenance = RowsWithId(rows, pcs[w].id)]
    /\ UNCHANGED <<rows, nextId, nodes, edges, graph_cache_enabled, ret, log,
                   mirrored, replay, assets, nextAssetId, projects, docs,
                   resp>>

\* delete, third step: session.delete(provenance) raises when provenance is
\* None; otherwise the commit deletes the row by its id, and a row that is
\* gone by then is deleted in vain
delete_commit(w) ==
    /\ At(w, "fetched")
    /\ IF pcs[w].provenance = {}
       THEN /\ pcs' = Done(w, FALSE, "raised")
            /\ UNCHANGED rows
       ELSE /\ rows' = rows \ RowsWithId(rows, pcs[w].id)
            /\ pcs' = [pcs EXCEPT ![w].pc = "committed",
                                  ![w].removed =
                                      (RowsWithId(rows, pcs[w].id) # {})]
    /\ UNCHANGED <<nextId, nodes, edges, graph_cache_enabled, ret, log,
                   mirrored, replay, assets, nextAssetId, projects, docs,
                   resp>>

\* delete, last step: remove the graph edge when mirroring is on, and
\* return True
delete_return(w) ==
    /\ At(w, "committed")
    /\ LET G == IF graph_cache_enabled
                THEN delete_node_relationship(Graph,
                         PayloadOf(CHOOSE r \in pcs[w].provenance : TRUE), 1)
                ELSE Graph
       IN  /\ nodes' = G.nodes
           /\ edges' = G.edges
    /\ pcs' = Done(w, TRUE, "returned")
    /\ UNCHANGED <<rows, nextId, graph_cache_enabled, ret, log, mirrored,
                   replay, assets, nextAssetId, projects, docs, resp>>

RaceNext ==
    \/ \E w \in Workers, id \in RowIds : delete_count(w, id)
    \/ \E w \in Workers : delete_get(w)
    \/ \E w \in Workers : delete_commit(w)
    \/ \E w \in Workers : delete_return(w)

RaceSpec == RaceInit /\ [][RaceNext]_vars

(***************************************************************************)
(* Vocabulary of the properties.                                           *)
(***************************************************************************)
\* the operations of a log that go to the graph store
GraphOps == {"graph.session", "graph.run"}

\* the log holds an operation of the set S
Issued(S) == \E i \in DOMAIN log : log[i] \in S

\* the graph store failed during the last call
GraphFailed == Issued({"graph.error"})

\* the stores did not change in this step
StoresUnchanged == UNCHANGED <<rows, nextId, nodes, edges>>

\* the payloads create() accepts
ValidArgs == {a \in CreateArgs : a.left_type # None /\ a.right_type # None}

\* the node instances of one (type, id) endpoint
NodesOf(ns, type, id) == {n \in ns : n.label = type /\ n.id = id}

\* the edge instances that mirror the payload p
EdgesOf(es, p) ==
    {e \in es : /\ e.src.label = p.left_type /\ e.src.id = p.left
                /\ e.dst.label = p.right_type /\ e.dst.id = p.right
                /\ e.type = p.relation_type /\ e.user_id = p.user_id}

(***************************************************************************)
(* C1                                                                      *)
(***************************************************************************)
\* C1: when mirroring is enabled and the graph store fails during the mirror
\* step of a create with both types given, the call still returns the id of
\* the row it inserted, and that row exists with the arguments of the call.
C1_CreateSurvivesGraphFailure ==
    (/\ ret.op = "create"
     /\ ret.args.left_type # None /\ ret.args.right_type # None
     /\ graph_cache_enabled
     /\ GraphFailed)
    => /\ ret.outcome = "returned"
       /\ ret.id = nextId - 1
       /\ \E r \in rows : r.id = ret.id /\ PayloadOf(r) = ret.args

(***************************************************************************)
(* C2                                                                      *)
(***************************************************************************)
\* C2: when mirroring is enabled and the graph store fails during the mirror
\* step of a delete of an existing id, the call returns true without raising
\* and the row stays deleted.
C2_DeleteSwallowsGraphFailure ==
    (/\ ret.op = "delete"
     /\ Issued({"rdb.delete"})
     /\ graph_cache_enabled
     /\ GraphFailed)
    => /\ ret.outcome = "returned"
       /\ ret.ok
       /\ \A r \in rows : r.id # ret.arg_id

(***************************************************************************)
(* C3                                                                      *)
(***************************************************************************)
\* C3: within every create or delete call, each graph-store operation comes
\* after the commit of that call's relational write (an insert or a delete);
\* a call without a committed relational write issues no graph operation.
C3_CommitBeforeMirror ==
    \A i \in DOMAIN log :
        log[i] \in GraphOps =>
            \E j \in 1..(i - 1) :
                /\ log[j] = "rdb.commit"
                /\ \E k \in 1..(j - 1) : log[k] \in {"rdb.add", "rdb.delete"}

\* C3 witness: a delete that committed and then reached the graph store
C3_Witness ==
    /\ ret.op = "delete"
    /\ Issued({"graph.run"})
    /\ Issued({"rdb.commit"})

(***************************************************************************)
(* C4                                                                      *)
(***************************************************************************)
\* C4: a create whose left_type or right_type is None raises the
\* invalid-relation error, issues no store operation and changes no store.
C4_InvalidRelationRejected ==
    [][(/\ ret'.op = "create"
        /\ (ret'.args.left_type = None \/ ret'.args.right_type = None))
       => /\ ret'.outcome = "raised"
          /\ ret'.error = InvalidRelation
          /\ log' = <<>>
          /\ StoresUnchanged]_vars

\* C4 witness: a create with a missing right type was rejected while rows
\* exist
C4_Witness ==
    /\ ret.op = "create"
    /\ ret.args.left_type # None
    /\ ret.args.right_type = None
    /\ ret.outcome = "raised"
    /\ rows # {}

(***************************************************************************)
(* C5                                                                      *)
(***************************************************************************)
\* the row r carries the fields of the payload a
SameFields(r, a) ==
    /\ r.left = a.left /\ r.left_type = a.left_type
    /\ r.right = a.right /\ r.right_type = a.right_type
    /\ r.relation_type = a.relation_type

\* C5: every create with both types given (a duplicate of an existing row
\* included) inserts exactly one row, which carries the arguments and an id
\* no other row has, and leaves the other rows as they are; a create that
\* returns, returns the id of that row.
C5_CreateInsertsOneRow ==
    [][(/\ ret'.op = "create"
        /\ ret'.args.left_type # None /\ ret'.args.right_type # None)
       => \E r \in rows' :
            /\ r \notin rows
            /\ rows' = rows \cup {r}
            /\ SameFields(r, ret'.args)
            /\ \A q \in rows : q.id # r.id
            /\ ret'.outcome = "returned" => ret'.id = r.id]_vars

\* C5 witness: a create returned the id of a second row that duplicates the
\* fields of the first
C5_Witness ==
    /\ ret.op = "create"
    /\ ret.outcome = "returned"
    /\ ret.id = 2
    /\ \E r1, r2 \in rows :
         /\ r1.id = 1 /\ r2.id = 2
         /\ SameFields(r1, ret.args) /\ SameFields(r2, ret.args)

(***************************************************************************)
(* C6                                                                      *)
(***************************************************************************)
\* C6: after a create that returns with mirroring enabled (the graph store
\* answered throughout), the graph holds a node labelled left_type with
\* id = left, a node labelled right_type with id = right and an edge labelled
\* relation_type from the first to the second that carries user_id.  The
\* nodes are there whether or not they existed before the call: a missing
\* node is created, an existing one is kept as it is.
C6_MirrorWritten ==
    [][(/\ ret'.op = "create"
        /\ ret'.outcome = "returned"
        /\ graph_cache_enabled)
       => LET a == ret'.args
              L == NodesOf(nodes, a.left_type, a.left)
              R == NodesOf(nodes, a.right_type, a.right)
          IN  /\ EdgesOf(edges', a) # {}
              /\ \A e \in EdgesOf(edges', a) :
                    e.src \in nodes' /\ e.dst \in nodes'
              /\ NodesOf(nodes', a.left_type, a.left) # {}
              /\ NodesOf(nodes', a.right_type, a.right) # {}
              /\ L # {} => NodesOf(nodes', a.left_type, a.left) = L
              /\ R # {} => NodesOf(nodes', a.right_type, a.right) = R]_vars

\* C6 witness: two mirrored creates that share their left endpoint, so the
\* second one found its left node in the graph
C6_Witness ==
    /\ ret.op = "create"
    /\ ret.outcome = "returned"
    /\ graph_cache_enabled
    /\ mirrored = {1, 2}
    /\ \E r1, r2 \in rows :
         /\ r1.id = 1 /\ r2.id = 2
         /\ r1.left_type = r2.left_type /\ r1.left = r2.left
         /\ r1.right_type # r2.right_type

(***************************************************************************)
(* C7                                                                      *)
(***************************************************************************)
\* C7: for every payload and every initial graph, whenever a run of the
\* three statements is through, whether it is the first run, a second or
\* third one, or a run after sessions that failed after a proper prefix, the
\* graph is the one a single run from the initial graph gives, and it holds
\* one node per endpoint and one edge for the payload.
C7_MirrorReplayIdempotent ==
    replay.pos = MirrorSteps
    => LET p == ret.args
       IN  /\ Graph = create_node_relationship(replay.G0, p, MirrorSteps)
           /\ Cardinality(NodesOf(nodes, p.left_type, p.left)) = 1
           /\ Cardinality(NodesOf(nodes, p.right_type, p.right)) = 1
           /\ Cardinality(EdgesOf(edges, p)) = 1

\* C7 witness: on a graph that held neither node, a session failed after a
\* proper prefix of the statements and two runs went through afterwards
C7_Witness ==
    /\ replay.G0.nodes = {}
    /\ replay.partial
    /\ replay.done = 2
    /\ replay.pos = MirrorSteps
    /\ ret.args.left_type # ret.args.right_type

(***************************************************************************)
(* C8                                                                      *)
(***************************************************************************)
\* the rows of rs with the id i, written out for the properties
Having(rs, i) == {r \in rs : r.id = i}

\* a deleted id stays absent (ids are not handed out again), and a retrieve
\* of an absent id returns absent
StaysAbsent ==
    /\ \A i \in 1..(nextId - 1) : Having(rows, i) = {} => Having(rows', i) = {}
    /\ (ret'.op = "retrieve" /\ Having(rows', ret'.arg_id) = {})
          => ret'.rec = {}

C9_DeleteReturnsFound ==
    [][ret'.op = "delete"
       => LET found == Having(rows, ret'.arg_id)
          IN  /\ ret'.outcome = "returned"
              /\ ret'.ok <=> (found # {})
              /\ rows' = rows \ found
              /\ found = {} => StoresUnchanged]_vars

(***************************************************************************)
(* C10                                                                     *)
(***************************************************************************)
\* C10: retrieve(id) returns the row with that id when there is one and
\* absent otherwise, never raises, changes neither store and issues no graph
\* operation; a row keeps the field values of its creation for as long as it
\* exists, so the record returned carries them.
C10_RetrieveReadOnly ==
    [][/\ ret'.op = "retrieve"
            => /\ ret'.outcome = "returned"
               /\ ret'.rec = Having(rows, ret'.arg_id)
               /\ Cardinality(ret'.rec) <= 1
               /\ StoresUnchanged
               /\ \A i \in DOMAIN log' :
                     log'[i] \notin GraphOps \cup {"graph.error"}
       /\ \A r \in rows : r \in rows' \/ Having(rows', r.id) = {}]_vars

\* C10 witness: a retrieve returned the record of one of two rows
C10_Witness ==
    /\ ret.op = "retrieve"
    /\ ret.outcome = "returned"
    /\ Cardinality(ret.rec) = 1
    /\ Cardinality(rows) = 2
    /\ edges # {}

(***************************************************************************)
(* C11                                                                     *)
(***************************************************************************)
\* C11: with mirroring enabled and no graph failure, after any sequence of
\* create and delete calls the graph holds an edge
\* (left_type, left)-[relation_type {user_id}]->(right_type, right) exactly
\* when the table holds at least one row with those left, left_type, right,
\* right_type and relation_type.
C11_MirrorMatchesRows ==
    \A p \in ValidArgs :
        (\E e \in edges :
            /\ e.src.label = p.left_type /\ e.src.id = p.left
            /\ e.dst.label = p.right_type /\ e.dst.id = p.right
            /\ e.type = p.relation_type)
        <=> (\E r \in rows : SameFields(r, p))

(***************************************************************************)
(* C12                                                                     *)
(***************************************************************************)
\* C12: under any interleaving of the steps of concurrent create_asset and
\* delete_asset requests, the asset table never holds two rows with the same
\* (project_id, resource_type, resource_id).
C12_AssetUnique ==
    \A key \in AssetKeys : Cardinality(MatchingAssets(assets, key)) <= 1

(***************************************************************************)
(* C13                                                                     *)
(***************************************************************************)
\* C13: a create_asset that finds a row of its reference answers with the
\* status 409 and leaves the asset table as it is.
C13_DuplicateIsConflict ==
    [][\A w \in Workers :
          (create_asset_respond(w) /\ pcs[w].identical_count > 0)
              => /\ resp'.response.status = HTTP_409_CONFLICT
                 /\ assets' = assets]_vars

(***************************************************************************)
(* C14 to C17: vocabulary                                                  *)
(***************************************************************************)
\* the last response is one of get_project_assets
Answered == resp.op = "get_project_assets"

\* the tags the last request named
Requested == Range(resp.types)

\* the asset rows of a project and a type
Refs(id, type) ==
    {a \in assets : a.project_id = id /\ a.resource_type = type}

\* how often the last request issued the operation op
Count(op) == Cardinality({i \in DOMAIN log : log[i] = op})

\* the tags the routing table marks as search-indexed
SearchIndexed ==
    {"datasets", "models", "model_configurations", "simulations",
     "workflows", "artifacts"}

(***************************************************************************)
(* C14                                                                     *)
(***************************************************************************)
\* C14: a mapping returned by get_project_assets has exactly the requested
\* tags as keys; the list of each tag is as long as the project has asset
\* rows of that tag, and the ids of its items are the resource ids of those
\* rows, none missing and no other.
C14_AggregationComplete ==
    (Answered /\ resp.response.status = HTTP_200_OK)
        => LET body == resp.response.content
           IN  /\ DOMAIN body = Requested
               /\ \A k \in Requested :
                     /\ Len(body[k]) = Cardinality(Refs(resp.id, k))
                     /\ Range(body[k])
                          = {a.resource_id : a \in Refs(resp.id, k)}

(***************************************************************************)
(* C15                                                                     *)
(***************************************************************************)
\* C15: every search-indexed tag has a response shaper; a request resolves
\* a requested search-indexed tag by search lookups only and any other tag
\* by relational queries only, never more than one per tag, and a request
\* that returns its mapping has issued exactly one for each requested tag.
C15_TypeResolution ==
    /\ SearchIndexed \subseteq DOMAIN es_list_response
    /\ Answered =>
          \A k \in Requested :
             LET search == Count(<<"es.search", k>>)
                 query == Count(<<"rdb.query", k>>)
             IN  /\ IF k \in SearchIndexed THEN query = 0 /\ search <= 1
                                           ELSE search = 0 /\ query <= 1
                 /\ resp.response.status = HTTP_200_OK => search + query = 1

\* C15 witness: a request for a search-indexed and a relational tag returned
\* a mapping with items under both
C15_Witness ==
    /\ Answered
    /\ resp.response.status = HTTP_200_OK
    /\ Requested = {"datasets", "publications"}
    /\ \A k \in Requested : Len(resp.response.content[k]) > 0

(***************************************************************************)
(* C16                                                                     *)
(***************************************************************************)
\* C16: get_project_assets on a project id that does not exist answers 404
\* after the existence check alone: no asset query, no lookup, and no step
\* of a request changes a store.
C16_MissingProjectNotFound ==
    /\ [](Answered /\ resp.id \notin projects
            => /\ resp.response.status = HTTP_404_NOT_FOUND
               /\ log = <<<<"rdb.entry_exists", "project">>>>)
    /\ [][UNCHANGED <<assets, nextAssetId, projects, docs, rows, nodes,
                      edges>>]_vars

\* C16 witness: a request that names tags was made for a missing project
\* while the asset table holds rows
C16_Witness ==
    /\ Answered
    /\ resp.id \notin projects
    /\ resp.types # <<>>
    /\ assets # {}

(***************************************************************************)
(* C17                                                                     *)
(***************************************************************************)
\* C17: when the lookup of a requested tag fails, the request of an existing
\* project fails as a whole and returns no mapping, not even the lists of
\* the tags resolved before.
C17_AllOrNothing ==
    (Answered /\ resp.id \in projects /\ resp.failing \in Requested)
        => /\ resp.response.status = HTTP_500_INTERNAL_SERVER_ERROR
           /\ resp.response.content = <<>>

\* C17 witness: the first of two tags was resolved to a stored resource and
\* the lookup of the second failed
C17_Witness ==
    /\ Answered
    /\ resp.id \in projects
    /\ Len(DictKeys(resp.types)) = 2
    /\ resp.failing = DictKeys(resp.types)[2]
    /\ Len(ResolveKey(resp.types[1],
                      assets_key_ids(resp.id, resp.types[1]))) > 0
    /\ Len(log) = 4

(***************************************************************************)
(* C18                                                                     *)
(***************************************************************************)
\* the nodes one edge of the derivation label leads to from a node of S
Successors(S) ==
    {e.dst : e \in {f \in edges : f.type = "derivedfrom" /\ f.src \in S}}

\* the nodes one or more such edges lead to from a node of S, given those
\* already known
RECURSIVE ReachableFrom(_, _)
ReachableFrom(S, known) ==
    LET more == Successors(S) \ known
    IN  IF more = {} THEN known ELSE ReachableFrom(more, known \cup more)

\* the nodes reachable from (type, id) by one or more derivation edges
Reachable(type, id) == ReachableFrom(NodesOf(nodes, type, id), {})

\* C18: a search that returns lists the (label, id) of exactly the nodes
\* that one or more edges of the derivation label lead to from the node
\* (artifact_type, artifact_id), the start node itself only when a cycle
\* leads back to it; and no search changes the graph or the table.
C18_SearchReturnsReachable ==
    /\ []((resp.op = "search_derivedfrom" /\ resp.outcome = "returned")
            => Range(resp.result)
                 = {[label |-> n.label, id |-> n.id] :
                      n \in Reachable(resp.artifact_type, resp.artifact_id)})
    /\ [][UNCHANGED <<rows, nextId, nodes, edges>>]_vars

\* C18 witness: a search from a node on a cycle of two derivation edges, in
\* a graph that also has an edge of another label to a third node, returned
\* the start node and its neighbour and not the third node
C18_Witness ==
    /\ resp.op = "search_derivedfrom"
    /\ resp.outcome = "returned"
    /\ Range(resp.result)
         = {[label |-> "datasets", id |-> 1], [label |-> "models", id |-> 1]}
    /\ resp.artifact_type = "datasets"
    /\ resp.artifact_id = 1
    /\ \E e \in edges : /\ e.type # "derivedfrom"
                        /\ e.src.label = "datasets" /\ e.src.id = 1
                        /\ e.dst.label = "datasets" /\ e.dst.id = 2

(***************************************************************************)
(* C19                                                                     *)
(***************************************************************************)
\* the (resource type, resource id) pairs
EndpointKeys == ResourceType \X ResourceIds

\* the endpoints of the payload a
EndpointsOf(a) == {<<a.left_type, a.left>>, <<a.right_type, a.right>>}

\* C19: with mirroring enabled and no graph failure the graph starts without
\* nodes; a create with both types given leaves exactly one node for each of
\* its two endpoints and changes no other node; every other call, delete
\* included, leaves the nodes as they are.  So the graph always holds one
\* node per pair that was an endpoint of a created relation, none for any
\* other pair, and the nodes outlive the deletion of their relations.
C19_OneNodePerEndpoint ==
    /\ nodes = {}
    /\ [][IF ret'.op = "create" /\ ret'.args.left_type # None
                                /\ ret'.args.right_type # None
          THEN \A key \in EndpointKeys :
                 IF key \in EndpointsOf(ret'.args)
                 THEN /\ Cardinality(NodesOf(nodes', key[1], key[2])) = 1
                      /\ NodesOf(nodes, key[1], key[2])
                            \subseteq NodesOf(nodes', key[1], key[2])
                 ELSE NodesOf(nodes', key[1], key[2])
                        = NodesOf(nodes, key[1], key[2])
          ELSE nodes' = nodes]_vars
    /\ [](/\ \A n \in nodes : <<n.label, n.id>> \in EndpointKeys
          /\ \A key \in EndpointKeys :
                Cardinality(NodesOf(nodes, key[1], key[2])) <= 1
          /\ \A r \in rows :
                /\ NodesOf(nodes, r.left_type, r.left) # {}
                /\ NodesOf(nodes, r.right_type, r.right) # {})

\* C19 witness: two relations between two endpoints were created and both
\* deleted; the two nodes are still there, without an edge
C19_Witness ==
    /\ graph_cache_enabled
    /\ ret.op = "delete"
    /\ ret.ok
    /\ rows = {}
    /\ nextId = 3
    /\ edges = {}
    /\ Cardinality(nodes) = 2

(***************************************************************************)
(* C20                                                                     *)
(***************************************************************************)
\* C20: when the two workers have each called delete(1) while relation 1
\* existed and both calls are through, both returned, exactly one of them
\* returned True, exactly one of them removed the row, and the row is gone.
C20_OneDeleteWins ==
    (\A w \in Workers : At(w, "done") /\ pcs[w].id = 1)
        => /\ \A w \in Workers : pcs[w].outcome = "returned"
           /\ Cardinality({w \in Workers : pcs[w].ok}) = 1
           /\ Cardinality({w \in Workers : pcs[w].removed}) = 1
           /\ RowsWithId(rows, 1) = {}

(***************************************************************************)
(* C21                                                                     *)
(***************************************************************************)
\* C21: in a graph that only creates with the relation types copies,
\* derives, glued and parents have written, every edge carries one of these
\* types and none the label 'derivedfrom', and every search that returns,
\* from whatever start node, returns the empty list.
C21_SearchFindsNothing ==
    /\ \A e \in edges :
          e.type \in {"copies", "derives", "glued", "parents"}
    /\ (resp.op = "search_derivedfrom" /\ resp.outcome = "returned")
          => resp.result = <<>>

\* C21 witness: two relations of different types were created and mirrored,
\* and a search from the left end of one of them has returned
C21_Witness ==
    /\ resp.op = "search_derivedfrom"
    /\ resp.outcome = "returned"
    /\ Cardinality({e.type : e \in edges}) = 2
    /\ \E e \in edges : /\ e.src.label = resp.artifact_type
                        /\ e.src.id = resp.artifact_id
                        /\ e.type = "derives"

====
